---- MODULE Spec2Model ----
(***************************************************************************)
(* GeoValuate AI: the RERA search endpoint (backend/main.py, lines 439-561 *)
(* of src/app/page.tsx) and the two client pages (lines 1-173 and 180-437  *)
(* of src/app/page.tsx).                                                   *)
(*                                                                         *)
(* Text is a sequence of symbols.  A symbol is one character, except for   *)
(* the names of JSON keys and the literal null, which are written as one   *)
(* symbol each: they hold no backtick, no whitespace and do not start with *)
(* "json", so str.strip and str.replace treat them like any other single   *)
(* character that is not part of a fence marker.                           *)
(***************************************************************************)
EXTENDS Integers, Sequences, FiniteSets, TLC

(* ------------------------------ bounds -------------------------------- *)

\* Longest list of listings the stubbed model puts in one reply.
MaxListings == 2
\* Number of handleAnalyze invocations in one behaviour of the client.
MaxAnalyze == 3

(* ------------------------------ symbols ------------------------------- *)

Q == "\""
\* The backtick character (the lexer of TLA+ does not take it in a string).
BT == "BACKTICK"
Whitespace == {" ", "\n"}
Digits == {"5", "7"}

\* The two markers of line 548.
FenceJson == <<BT, BT, BT, "j", "s", "o", "n">>
Fence == <<BT, BT, BT>>

(* ------------------- str.strip / str.replace (line 548) --------------- *)

\* str.strip(): whitespace is removed at both ends only.
Strip(s) ==
    LET ink == {i \in 1..Len(s) : s[i] \notin Whitespace}
    IN  IF ink = {} THEN <<>>
        ELSE SubSeq(s, CHOOSE i \in ink : \A j \in ink : i <= j,
                       CHOOSE i \in ink : \A j \in ink : i >= j)

\* The places where `old` occurs in s.
Occurrences(s, old) ==
    {i \in 1..(Len(s) - Len(old) + 1) : SubSeq(s, i, i + Len(old) - 1) = old}

\* str.replace(old, ""): the scan goes from the left and takes occurrences
\* that do not overlap; an occurrence is taken unless one taken before it
\* covers its first symbol.  What is left of s, in order.
Replace(s, old) ==
    LET occ == Occurrences(s, old)
        taken[i \in occ] ==
            \A j \in occ : (j < i /\ i < j + Len(old)) => ~taken[j]
        gone == UNION { j..(j + Len(old) - 1) : j \in {i \in occ : taken[i]} }
        kept == SelectSeq([i \in 1..Len(s) |-> i], LAMBDA i : i \notin gone)
    IN  IF occ = {} THEN s ELSE [k \in 1..Len(kept) |-> s[kept[k]]]

\* response.text.strip().replace(FenceJson, "").replace(Fence, "").strip()
cleaned_response_text(text) ==
    Strip(Replace(Replace(Strip(text), FenceJson), Fence))

(* ----------------------- json.loads (line 549) ------------------------ *)
(* Values: [t |-> "str", s |-> symbols], [t |-> "num", d |-> digits],      *)
(* [t |-> "null"], [t |-> "arr", items |-> values],                       *)
(* [t |-> "obj", members |-> sequence of [k |-> symbols, val |-> value]].  *)
(* A parse result is [ok, val, pos]: pos is the first symbol not consumed. *)

JNull == [t |-> "null"]
JStr(s) == [t |-> "str", s |-> s]
JNum(d) == [t |-> "num", d |-> d]
JArr(items) == [t |-> "arr", items |-> items]
JObj(members) == [t |-> "obj", members |-> members]

ParseFail == [ok |-> FALSE, val |-> JNull, pos |-> 0]
ParseOk(v, p) == [ok |-> TRUE, val |-> v, pos |-> p]

\* The first place from i on that holds no whitespace (Len(s) + 1: none).
SkipWs(s, i) ==
    LET stop == {j \in i..(Len(s) + 1) : j = Len(s) + 1 \/ s[j] \notin Whitespace}
    IN  IF i > Len(s) THEN i ELSE CHOOSE j \in stop : \A k \in stop : j <= k

\* Index of the quote closing the string whose content starts at j; 0 when
\* the string is not closed or holds a raw newline (strict mode).
StringEnd(s, j) ==
    LET stop == {k \in j..Len(s) : s[k] \in {Q, "\n"}}
    IN  IF stop = {} THEN 0
        ELSE LET e == CHOOSE k \in stop : \A m \in stop : k <= m
             IN  IF s[e] = Q THEN e ELSE 0

\* The first place from j on that holds no digit.
NumberEnd(s, j) ==
    LET stop == {k \in j..(Len(s) + 1) : k = Len(s) + 1 \/ s[k] \notin Digits}
    IN  CHOOSE k \in stop : \A m \in stop : k <= m

ParseString(s, i) ==
    LET e == StringEnd(s, i + 1)
    IN  IF e = 0 THEN ParseFail
        ELSE ParseOk(JStr(SubSeq(s, i + 1, e - 1)), e + 1)

RECURSIVE ParseValue(_, _)
RECURSIVE ParseElements(_, _, _)
RECURSIVE ParseMembers(_, _, _)

\* scan_once: the value that starts at s[i].
ParseValue(s, i) ==
    IF i > Len(s) THEN ParseFail
    ELSE IF s[i] = Q THEN ParseString(s, i)
    ELSE IF s[i] \in Digits
         THEN ParseOk(JNum(SubSeq(s, i, NumberEnd(s, i) - 1)), NumberEnd(s, i))
    ELSE IF s[i] = "null" THEN ParseOk(JNull, i + 1)
    ELSE IF s[i] = "["
         THEN LET j == SkipWs(s, i + 1)
              IN  IF j <= Len(s) /\ s[j] = "]"
                  THEN ParseOk(JArr(<<>>), j + 1)
                  ELSE ParseElements(s, j, <<>>)
    ELSE IF s[i] = "{"
         THEN LET j == SkipWs(s, i + 1)
              IN  IF j <= Len(s) /\ s[j] = "}"
                  THEN ParseOk(JObj(<<>>), j + 1)
                  ELSE ParseMembers(s, j, <<>>)
    ELSE ParseFail

\* JSONArray: value, then "," and another value, or "]".
ParseElements(s, i, acc) ==
    LET r == ParseValue(s, i)
    IN  IF ~r.ok THEN ParseFail
        ELSE LET j == SkipWs(s, r.pos)
             IN  IF j > Len(s) THEN ParseFail
                 ELSE IF s[j] = "]" THEN ParseOk(JArr(Append(acc, r.val)), j + 1)
                 ELSE IF s[j] = ","
                      THEN ParseElements(s, SkipWs(s, j + 1), Append(acc, r.val))
                 ELSE ParseFail

\* JSONObject: "key" : value, then "," and another member, or "}".
ParseMembers(s, i, acc) ==
    IF i > Len(s) \/ s[i] # Q THEN ParseFail
    ELSE LET k == ParseString(s, i)
         IN  IF ~k.ok THEN ParseFail
             ELSE LET c == SkipWs(s, k.pos)
                  IN  IF c > Len(s) \/ s[c] # ":" THEN ParseFail
                      ELSE LET r == ParseValue(s, SkipWs(s, c + 1))
                           IN  IF ~r.ok THEN ParseFail
                               ELSE LET j == SkipWs(s, r.pos)
                                        m == Append(acc, [k |-> k.val.s, val |-> r.val])
                                    IN  IF j > Len(s) THEN ParseFail
                                        ELSE IF s[j] = "}" THEN ParseOk(JObj(m), j + 1)
                                        ELSE IF s[j] = ","
                                             THEN ParseMembers(s, SkipWs(s, j + 1), m)
                                        ELSE ParseFail

\* json.loads(text): one value, whitespace around it, nothing after it.
\* [ok |-> FALSE] stands for json.JSONDecodeError.
json_loads(text) ==
    LET r == ParseValue(text, SkipWs(text, 1))
    IN  IF ~r.ok THEN ParseFail
        ELSE IF SkipWs(text, r.pos) = Len(text) + 1 THEN r
        ELSE ParseFail

(* --------------------- pydantic models (lines 466-476) ---------------- *)

FieldNames == {"project_name", "developer", "details", "source_url"}

HasKey(members, k) == \E i \in 1..Len(members) : members[i].k = <<k>>

\* dict lookup: json.loads keeps the last of several members with one key.
Get(members, k) ==
    LET i == CHOOSE i \in 1..Len(members) :
                 /\ members[i].k = <<k>>
                 /\ \A j \in (i + 1)..Len(members) : members[j].k # <<k>>
    IN  members[i].val

\* A field declared `str`.  Pydantic v2 takes a string only; Pydantic v1
\* also takes a number and stores str(number).
StrField(v, pv) ==
    IF v.t = "str" THEN [ok |-> TRUE, s |-> v.s]
    ELSE IF v.t = "num" /\ pv = "v1" THEN [ok |-> TRUE, s |-> v.d]
    ELSE [ok |-> FALSE, s |-> <<>>]

\* A required `str` field k of the mapping `members`.
Required(members, k, pv) ==
    IF HasKey(members, k) THEN StrField(Get(members, k), pv)
    ELSE [ok |-> FALSE, s |-> <<>>]

\* A plausible slip: `address: str = ""`, the field is optional.
AnalysisRequestOptional(b, pv) ==
    IF b.t = "obj" /\ ~HasKey(b.members, "address")
    THEN [ok |-> TRUE, address |-> <<>>]
    ELSE IF b.t = "obj" /\ Required(b.members, "address", pv).ok
    THEN [ok |-> TRUE, address |-> Required(b.members, "address", pv).s]
    ELSE [ok |-> FALSE, address |-> <<>>]

\* class AnalysisRequest(BaseModel): address: str
AnalysisRequest(b, pv) ==
    IF b.t = "obj" /\ Required(b.members, "address", pv).ok
    THEN [ok |-> TRUE, address |-> Required(b.members, "address", pv).s]
    ELSE [ok |-> FALSE, address |-> <<>>]

\* A plausible slip: `extra = "forbid"`, a key that is no field is an error.
ReraListingForbidExtra(item, pv) ==
    /\ item.t = "obj"
    /\ \A f \in FieldNames : Required(item.members, f, pv).ok
    /\ \A i \in 1..Len(item.members) :
          \E f \in FieldNames : item.members[i].k = <<f>>

\* class ReraListing(BaseModel): four required `str` fields; keys that are
\* not fields are ignored (the default `extra`).
ReraListingOk(item, pv) ==
    /\ item.t = "obj"
    /\ \A f \in FieldNames : Required(item.members, f, pv).ok

\* The validated listing: the four fields and nothing else.
ReraListing(item, pv) ==
    [f \in FieldNames |-> Required(item.members, f, pv).s]

\* A plausible slip: the listings come out in reverse order.
ListingsReversed(items, pv) ==
    [i \in 1..Len(items) |-> ReraListing(items[Len(items) + 1 - i], pv)]

\* listings: List[ReraListing], every item validated, in the order given.
ListingsOf(items, pv) ==
    [i \in 1..Len(items) |-> ReraListing(items[i], pv)]

\* ReraResponse(**response_data), line 550.  exc names what is raised:
\* TypeError when response_data is no mapping, ValidationError when the
\* mapping does not fit the schema.
ReraResponse(data, pv) ==
    IF data.t # "obj"
    THEN [ok |-> FALSE, exc |-> "TypeError", listings |-> <<>>]
    ELSE IF /\ HasKey(data.members, "listings")
            /\ Get(data.members, "listings").t = "arr"
            /\ \A i \in 1..Len(Get(data.members, "listings").items) :
                  ReraListingOk(Get(data.members, "listings").items[i], pv)
         THEN [ok |-> TRUE, exc |-> "",
               listings |-> ListingsOf(Get(data.members, "listings").items, pv)]
         ELSE [ok |-> FALSE, exc |-> "ValidationError", listings |-> <<>>]

(* --------------- replies of the external model (line 546) ------------- *)
(* The model is an opaque text service: its reply is any of the texts      *)
(* below, built from JSON bodies of listings, bare or inside fences, and   *)
(* from texts that are no JSON at all.                                     *)

TStr(s) == <<Q>> \o s \o <<Q>>
TField(k, v) == TStr(<<k>>) \o <<":">> \o v

RECURSIVE Join(_)
Join(ts) ==
    IF ts = <<>> THEN <<>>
    ELSE IF Len(ts) = 1 THEN ts[1]
    ELSE ts[1] \o <<",">> \o Join(Tail(ts))

TObj(fields) == <<"{">> \o Join(fields) \o <<"}">>
TArr(items) == <<"[">> \o Join(items) \o <<"]">>

TListing(n, d, t, u) ==
    TObj(<<TField("project_name", n), TField("developer", d),
           TField("details", t), TField("source_url", u)>>)

GoodListing == TListing(TStr(<<"X">>), TStr(<<"Y">>), TStr(<<"Z">>), TStr(<<"U">>))

ListingTexts ==
    { GoodListing,
      TListing(TStr(<<"P">>), TStr(<<"Y">>), TStr(<<>>), TStr(<<"V">>)),
      \* source_url is missing
      TObj(<<TField("project_name", TStr(<<"X">>)), TField("developer", TStr(<<"Y">>)),
             TField("details", TStr(<<"Z">>))>>),
      \* project_name is a number
      TListing(<<"5", "7">>, TStr(<<"Y">>), TStr(<<"Z">>), TStr(<<"U">>)),
      \* a key that is no field of the schema
      TObj(<<TField("project_name", TStr(<<"X">>)), TField("rating", <<"5">>),
             TField("developer", TStr(<<"Y">>)), TField("details", TStr(<<"Z">>)),
             TField("source_url", TStr(<<"U">>))>>) }

\* The lists of at most n listings.
RECURSIVE ListingLists(_)
ListingLists(n) ==
    IF n = 0 THEN {<<>>}
    ELSE ListingLists(n - 1) \cup
         { Append(l, x) : l \in {m \in ListingLists(n - 1) : Len(m) = n - 1},
                          x \in ListingTexts }

\* JSON bodies: every one of them is well-formed JSON.
JsonBodies ==
    { TObj(<<TField("listings", TArr(l))>>) : l \in ListingLists(MaxListings) } \cup
    { \* a key that is no field, at the top
      TObj(<<TField("note", TStr(<<"n">>)), TField("listings", TArr(<<GoodListing>>))>>),
      \* no listings
      TObj(<<TField("note", TStr(<<"n">>))>>),
      TObj(<<>>),
      \* listings is no list; an item is no object
      TObj(<<TField("listings", TStr(<<"X">>))>>),
      TObj(<<TField("listings", TArr(<<TStr(<<"X">>)>>))>>),
      \* details is null
      TObj(<<TField("listings", TArr(<<
          TListing(TStr(<<"X">>), TStr(<<"Y">>), <<"null">>, TStr(<<"U">>))>>))>>),
      \* details holds the fence marker
      TObj(<<TField("listings", TArr(<<
          TListing(TStr(<<"X">>), TStr(<<"Y">>), TStr(<<"Z", BT, BT, BT, "Z">>),
                   TStr(<<"U">>)), GoodListing>>))>>),
      \* whitespace between the tokens
      TObj(<<TField("listings", <<" ">> \o TArr(<<GoodListing>>) \o <<"\n">>)>>),
      \* no object at the top
      TArr(<<GoodListing>>),
      TStr(<<BT, BT, BT, "j", "s", "o", "n">>) }

\* How the model wraps a body: bare, in a json fence, in a plain fence.
Wrappers == {"bare", "json", "plain"}

Wrap(w, b) ==
    IF w = "json" THEN FenceJson \o <<"\n">> \o b \o <<"\n">> \o Fence
    ELSE IF w = "plain" THEN <<" ">> \o Fence \o b \o Fence \o <<"\n">>
    ELSE b

\* Replies that are no JSON: prose, nothing, a body cut short, prose before
\* the fenced body.
BrokenReplies ==
    { <<"s", "o", "n">>,
      <<>>,
      <<"{">> \o TField("listings", <<"[">>),
      <<"X", " ">> \o Wrap("json", TObj(<<TField("listings", TArr(<<>>))>>)) }

ModelReplies == { Wrap(w, b) : w \in Wrappers, b \in JsonBodies } \cup BrokenReplies

\* What generate_content, or reading response.text, raises when it fails.
ModelExceptions ==
    { "ResourceExhausted: 429 quota exceeded for key AIza",
      "ValueError: response.text requires a valid Part" }

\* Request bodies, as the JSON value the framework decoded.
AddressE == <<"E", "r", "o", "d", "e">>

RequestBodies ==
    { JObj(<<[k |-> <<"address">>, val |-> JStr(AddressE)]>>),
      JObj(<<[k |-> <<"address">>, val |-> JStr(<<>>)]>>),
      JObj(<<>>),
      JObj(<<[k |-> <<"lat">>, val |-> JNum(<<"5">>)]>>),
      JObj(<<[k |-> <<"address">>, val |-> JNull]>>),
      JObj(<<[k |-> <<"address">>, val |-> JNum(<<"5">>)]>>),
      JArr(<<>>) }

(* ----------------------------- state ---------------------------------- *)

VARIABLES
    \* the server process (backend/main.py)
    environ,        \* os.environ: the names of the variables that are set
    pydantic,       \* the installed Pydantic, "v1" or "v2" (lines 537-540)
    pc,             \* where the request being served is
    phases,         \* the phases the request has been through, in order
    body,           \* the decoded body of the request
    address,        \* request.address
    prompt,         \* the prompt given to the model
    modelCalls,     \* calls of model.generate_content for this request
    raw,            \* response.text
    cleaned,        \* cleaned_response_text
    response_data,  \* what json.loads gave for it
    exc,            \* the exception caught at line 555
    errorLog,       \* what logger.error wrote
    response,       \* the response sent for the request
    rootResponse,   \* the last response of GET /
    \* the client page (HomePage)
    variant,        \* "rera" (lines 1-173) or "valuation" (lines 180-437)
    isLoaded, center, selectedPlace, isAnalyzing, listings, analysisResult,
    error,
    alerts,         \* alert() boxes shown
    inflight,       \* requests sent by fetch and not settled
    fetchCount,     \* calls of fetch
    calls,          \* invocations of handleAnalyze
    lastSettled,    \* how the last settled request ended
    \* fence stripping taken alone
    fBody, fpc, fWrapped, fBare, fTwice

serverVars == <<environ, pydantic, pc, phases, body, address, prompt, modelCalls,
                raw, cleaned, response_data, exc, errorLog, response, rootResponse>>
clientVars == <<variant, isLoaded, center, selectedPlace, isAnalyzing, listings,
                analysisResult, error, alerts, inflight, fetchCount, calls,
                lastSettled>>
fenceVars == <<fBody, fpc, fWrapped, fBare, fTwice>>
vars == <<serverVars, clientVars, fenceVars>>

(* ----------------------------- server --------------------------------- *)

NoExc == ""
NoText == <<"-">>
NoResponse == [status |-> 0, detail |-> "", listings |-> <<>>]
NoData == [ok |-> FALSE, val |-> JNull, pos |-> 0]

\* The detail of line 557.
FixedDetail == "An error occurred while communicating with the AI model."

\* A plausible slip: detail=str(e).
HTTPExceptionLeaks(e) == [status |-> 500, detail |-> e, listings |-> <<>>]

\* A plausible slip: the failure is sent as a 502.
HTTPException502(e) == [status |-> 502, detail |-> FixedDetail, listings |-> <<>>]

\* raise HTTPException(status_code=500, detail=...), line 557.
HTTPException500(e) == [status |-> 500, detail |-> FixedDetail, listings |-> <<>>]

\* The framework's answer to a body that is no AnalysisRequest: the handler
\* is not called.
RequestValidationError ==
    [status |-> 422, detail |-> "RequestValidationError", listings |-> <<>>]

\* return validated_response, serialised by response_model=ReraResponse.
Success(ls) == [status |-> 200, detail |-> "", listings |-> ls]

\* "GEMINI_API_KEY" not in os.environ, negated (line 532).
CredentialPresent(env) == "GEMINI_API_KEY" \in env

\* A plausible slip: genai.configure at import, which needs the key.
CanStartNeedsKey(env) == "GEMINI_API_KEY" \in env

\* Importing the module reads no environment variable (lines 441-523).
CanStart(env) == TRUE

\* RERA_PROMPT.format(address=..., schema=...), lines 508-523 and 542.
RERA_PROMPT(a, schema) == [address |-> a, schema |-> schema]
NoPrompt == [address |-> <<>>, schema |-> ""]

ServerInit ==
    /\ environ \in SUBSET {"GEMINI_API_KEY"}
    /\ pydantic \in {"v1", "v2"}
    /\ pc = "down"
    /\ phases = <<>>
    /\ body = JNull
    /\ address = <<>>
    /\ prompt = NoPrompt
    /\ modelCalls = 0
    /\ raw = NoText
    /\ cleaned = NoText
    /\ response_data = NoData
    /\ exc = NoExc
    /\ errorLog = NoExc
    /\ response = NoResponse
    /\ rootResponse = NoResponse

\* The process starts: app = FastAPI(...), middleware, logging.
Startup ==
    /\ pc = "down"
    /\ CanStart(environ)
    /\ pc' = "idle"
    /\ UNCHANGED <<environ, pydantic, phases, body, address, prompt, modelCalls,
                   raw, cleaned, response_data, exc, errorLog, response,
                   rootResponse>>
    /\ UNCHANGED <<clientVars, fenceVars>>

\* GET /
read_root ==
    /\ pc \in {"idle", "responded"}
    /\ rootResponse' = [status |-> 200, detail |-> "is running", listings |-> <<>>]
    /\ UNCHANGED <<environ, pydantic, pc, phases, body, address, prompt,
                   modelCalls, raw, cleaned, response_data, exc, errorLog,
                   response>>
    /\ UNCHANGED <<clientVars, fenceVars>>

\* POST /api/find-rera-listings arrives; nothing of the request before it
\* is kept.
Receive(b) ==
    /\ pc \in {"idle", "responded"}
    /\ pc' = "validating"
    /\ phases' = <<"Received">>
    /\ body' = b
    /\ address' = <<>>
    /\ prompt' = NoPrompt
    /\ modelCalls' = 0
    /\ raw' = NoText
    /\ cleaned' = NoText
    /\ response_data' = NoData
    /\ exc' = NoExc
    /\ errorLog' = NoExc
    /\ response' = NoResponse
    /\ UNCHANGED <<environ, pydantic, rootResponse>>
    /\ UNCHANGED <<clientVars, fenceVars>>

\* The framework builds `request: AnalysisRequest` from the body (line 528).
ValidateInput ==
    /\ pc = "validating"
    /\ phases' = Append(phases, "Validating input")
    /\ IF AnalysisRequest(body, pydantic).ok
       THEN /\ address' = AnalysisRequest(body, pydantic).address
            /\ pc' = "handler"
            /\ UNCHANGED response
       ELSE /\ response' = RequestValidationError
            /\ pc' = "responded"
            /\ UNCHANGED address
    /\ UNCHANGED <<environ, pydantic, body, prompt, modelCalls, raw, cleaned,
                   response_data, exc, errorLog, rootResponse>>
    /\ UNCHANGED <<clientVars, fenceVars>>

\* except Exception as e: log it, answer 500 (lines 555-557).
Fail(e, ph) ==
    /\ exc' = e
    /\ errorLog' = e
    /\ response' = HTTPException500(e)
    /\ phases' = Append(ph, "Failed")
    /\ pc' = "responded"

\* Lines 529-546: the credential check, the prompt, and the call of the
\* model handed to the executor.
find_rera_listings ==
    /\ pc = "handler"
    /\ IF ~CredentialPresent(environ)
       THEN /\ Fail("RuntimeError: GEMINI_API_KEY environment variable not set.", phases)
            /\ UNCHANGED <<prompt, modelCalls>>
       ELSE /\ prompt' = RERA_PROMPT(address, "ReraResponse")
            /\ modelCalls' = modelCalls + 1
            /\ phases' = Append(phases, "Awaiting model")
            /\ pc' = "awaiting"
            /\ UNCHANGED <<exc, errorLog, response>>
    /\ UNCHANGED <<environ, pydantic, body, address, raw, cleaned, response_data,
                   rootResponse>>
    /\ UNCHANGED <<clientVars, fenceVars>>

\* The executor's call returns a reply whose text can be read.
ModelReturns(text) ==
    /\ pc = "awaiting"
    /\ raw' = text
    /\ pc' = "sanitizing"
    /\ UNCHANGED <<environ, pydantic, phases, body, address, prompt, modelCalls,
                   cleaned, response_data, exc, errorLog, response, rootResponse>>
    /\ UNCHANGED <<clientVars, fenceVars>>

\* The executor's call, or reading response.text, raises.
ModelRaises(e) ==
    /\ pc = "awaiting"
    /\ Fail(e, phases)
    /\ UNCHANGED <<environ, pydantic, body, address, prompt, modelCalls, raw,
                   cleaned, response_data, rootResponse>>
    /\ UNCHANGED <<clientVars, fenceVars>>

\* Line 548.
Sanitize ==
    /\ pc = "sanitizing"
    /\ cleaned' = cleaned_response_text(raw)
    /\ phases' = Append(phases, "Sanitizing")
    /\ pc' = "parsing"
    /\ UNCHANGED <<environ, pydantic, body, address, prompt, modelCalls, raw,
                   response_data, exc, errorLog, response, rootResponse>>
    /\ UNCHANGED <<clientVars, fenceVars>>

\* A plausible slip: malformed output makes the handler ask the model again.
ParseValidateRetry ==
    /\ pc = "parsing"
    /\ response_data' = json_loads(cleaned)
    /\ LET data == response_data'
           validated_response == ReraResponse(data.val, pydantic)
           ph == Append(phases, "Parsing/Validating output")
       IN  IF ~data.ok
           THEN IF modelCalls < 2
                THEN /\ modelCalls' = modelCalls + 1
                     /\ phases' = Append(ph, "Awaiting model")
                     /\ pc' = "awaiting"
                     /\ UNCHANGED <<exc, errorLog, response>>
                ELSE /\ Fail("JSONDecodeError: Expecting value", ph)
                     /\ UNCHANGED modelCalls
           ELSE /\ UNCHANGED modelCalls
                /\ IF ~validated_response.ok
                   THEN Fail(validated_response.exc, ph)
                   ELSE /\ response' = Success(validated_response.listings)
                        /\ phases' = Append(ph, "Succeeded")
                        /\ pc' = "responded"
                        /\ UNCHANGED <<exc, errorLog>>
    /\ UNCHANGED <<environ, pydantic, body, address, prompt, raw, cleaned,
                   rootResponse>>
    /\ UNCHANGED <<clientVars, fenceVars>>

\* Lines 549-553: json.loads, ReraResponse(**response_data), return.
ParseValidate ==
    /\ pc = "parsing"
    /\ response_data' = json_loads(cleaned)
    /\ LET data == response_data'
           validated_response == ReraResponse(data.val, pydantic)
           ph == Append(phases, "Parsing/Validating output")
       IN  IF ~data.ok
           THEN Fail("JSONDecodeError: Expecting value", ph)
           ELSE IF ~validated_response.ok
                THEN Fail(validated_response.exc, ph)
                ELSE /\ response' = Success(validated_response.listings)
                     /\ phases' = Append(ph, "Succeeded")
                     /\ pc' = "responded"
                     /\ UNCHANGED <<exc, errorLog>>
    /\ UNCHANGED <<environ, pydantic, body, address, prompt, modelCalls, raw,
                   cleaned, rootResponse>>
    /\ UNCHANGED <<clientVars, fenceVars>>

ServerNext ==
    \/ Startup
    \/ read_root
    \/ \E b \in RequestBodies : Receive(b)
    \/ ValidateInput
    \/ find_rera_listings
    \/ \E text \in ModelReplies : ModelReturns(text)
    \/ \E e \in ModelExceptions : ModelRaises(e)
    \/ Sanitize
    \/ ParseValidate

(* ----------------------------- client --------------------------------- *)

NoAddress == ""
NoCenter == "none"
DefaultCenter == "Erode"

\* useState<string | null>(null)
Null == "null"
\* useState<ReraListing[]>([]) and useState<AnalysisResult | null>(null)
NoListings == <<>>
NullResult == [for |-> NoAddress, id |-> 0]

\* The error strings of lines 93 and 306.
FixedError(v) ==
    IF v = "rera"
    THEN "Failed to fetch listings. Please check the backend and try again."
    ELSE "Failed to fetch analysis. Please check your backend URL and ensure the server is running."

\* What autocompleteRef.current.getPlace() returns: a place with or without
\* geometry, with or without a formatted address.
Places ==
    { [geometry |-> TRUE, location |-> "A", formatted_address |-> "Erode, Tamil Nadu"],
      [geometry |-> TRUE, location |-> "B", formatted_address |-> "Salem, Tamil Nadu"],
      [geometry |-> TRUE, location |-> "C", formatted_address |-> NoAddress],
      [geometry |-> FALSE, location |-> NoCenter, formatted_address |-> "Erode, Tamil Nadu"] }

\* The JSON a 2xx response carries for a request about address a.
ListingPayloads(a) ==
    { <<>>, <<[for |-> a, id |-> 1]>>, <<[for |-> a, id |-> 1], [for |-> a, id |-> 2]>> }
ResultPayloads(a) == { [for |-> a, id |-> 1], [for |-> a, id |-> 2] }

Statuses == {200, 422, 500}
\* response.ok
Ok(status) == status >= 200 /\ status <= 299

\* BACKEND_URL.includes('xxxxxxxx'), lines 230 and 277.
UrlIsPlaceholder == FALSE

\* A plausible slip: the button does not look at the busy flag.
SearchDisabledNotBusy == selectedPlace = NoAddress \/ ~isLoaded

\* disabled={isAnalyzing || !selectedPlace || !isLoaded}, lines 124 and 351.
SearchDisabled == isAnalyzing \/ selectedPlace = NoAddress \/ ~isLoaded

ClientInit ==
    /\ variant \in {"rera", "valuation"}
    /\ isLoaded = FALSE
    /\ center = DefaultCenter
    /\ selectedPlace = NoAddress
    /\ isAnalyzing = FALSE
    /\ listings = NoListings
    /\ analysisResult = NullResult
    /\ error = Null
    /\ alerts = 0
    /\ inflight = <<>>
    /\ fetchCount = 0
    /\ calls = 0
    /\ lastSettled = "none"

\* useJsApiLoader reports the Maps script loaded; the Autocomplete renders
\* and onLoad keeps it in autocompleteRef.
ScriptLoaded ==
    /\ ~isLoaded
    /\ isLoaded' = TRUE
    /\ UNCHANGED <<variant, center, selectedPlace, isAnalyzing, listings,
                   analysisResult, error, alerts, inflight, fetchCount, calls,
                   lastSettled>>
    /\ UNCHANGED <<serverVars, fenceVars>>

\* setListings([]) or setAnalysisResult(null)
ClearResults ==
    /\ listings' = NoListings
    /\ analysisResult' = NullResult

onPlaceChanged(place) ==
    /\ isLoaded
    /\ IF place.geometry
       THEN /\ center' = place.location
            /\ selectedPlace' = place.formatted_address
            /\ ClearResults
            /\ error' = Null
       ELSE UNCHANGED <<center, selectedPlace, listings, analysisResult, error>>
    /\ UNCHANGED <<variant, isLoaded, isAnalyzing, alerts, inflight, fetchCount,
                   calls, lastSettled>>
    /\ UNCHANGED <<serverVars, fenceVars>>

\* The body of the request: { address } or { address, lat, lng }.
RequestBody ==
    [address |-> selectedPlace,
     latlng |-> IF variant = "rera" THEN NoCenter ELSE center]

\* A plausible slip: the guard on selectedPlace is missing.
handleAnalyzeNoGuard ==
    /\ calls < MaxAnalyze
    /\ calls' = calls + 1
    /\ isAnalyzing' = TRUE
    /\ error' = Null
    /\ ClearResults
    /\ inflight' = Append(inflight, [body |-> RequestBody, stage |-> "fetch"])
    /\ fetchCount' = fetchCount + 1
    /\ UNCHANGED alerts
    /\ UNCHANGED <<variant, isLoaded, center, selectedPlace, lastSettled>>
    /\ UNCHANGED <<serverVars, fenceVars>>

\* handleAnalyze up to its first await (lines 69-83 and 272-296).
handleAnalyze ==
    /\ calls < MaxAnalyze
    /\ calls' = calls + 1
    /\ IF selectedPlace = NoAddress \/ UrlIsPlaceholder
       THEN /\ alerts' = alerts + 1
            /\ UNCHANGED <<isAnalyzing, error, listings, analysisResult, inflight,
                           fetchCount>>
       ELSE /\ isAnalyzing' = TRUE
            /\ error' = Null
            /\ ClearResults
            /\ inflight' = Append(inflight, [body |-> RequestBody, stage |-> "fetch"])
            /\ fetchCount' = fetchCount + 1
            /\ UNCHANGED alerts
    /\ UNCHANGED <<variant, isLoaded, center, selectedPlace, lastSettled>>
    /\ UNCHANGED <<serverVars, fenceVars>>

\* The Search button is clicked: a disabled button gives no click.
ClickSearch ==
    /\ ~SearchDisabled
    /\ handleAnalyze

Remove(q, i) == SubSeq(q, 1, i - 1) \o SubSeq(q, i + 1, Len(q))

\* A plausible slip: setIsAnalyzing(false) at the end of try, no finally.
CatchNoFinally(i, how) ==
    /\ error' = FixedError(variant)
    /\ inflight' = Remove(inflight, i)
    /\ lastSettled' = how
    /\ UNCHANGED <<listings, analysisResult, isAnalyzing>>

\* catch: setError(fixed string); finally: setIsAnalyzing(false).
CatchFinally(i, how) ==
    /\ error' = FixedError(variant)
    /\ isAnalyzing' = FALSE
    /\ inflight' = Remove(inflight, i)
    /\ lastSettled' = how
    /\ UNCHANGED <<listings, analysisResult>>

\* await fetch(...) rejects: a network failure.
FetchRejects(i) ==
    /\ i \in 1..Len(inflight)
    /\ inflight[i].stage = "fetch"
    /\ CatchFinally(i, "network failure")
    /\ UNCHANGED <<variant, isLoaded, center, selectedPlace, alerts, fetchCount, calls>>
    /\ UNCHANGED <<serverVars, fenceVars>>

\* await fetch(...) resolves with a response: if (!response.ok) throw.
FetchResolves(i, status) ==
    /\ i \in 1..Len(inflight)
    /\ inflight[i].stage = "fetch"
    /\ IF Ok(status)
       THEN /\ inflight' = [inflight EXCEPT ![i].stage = "json"]
            /\ UNCHANGED <<error, isAnalyzing, lastSettled, listings, analysisResult>>
       ELSE CatchFinally(i, "not ok")
    /\ UNCHANGED <<variant, isLoaded, center, selectedPlace, alerts, fetchCount, calls>>
    /\ UNCHANGED <<serverVars, fenceVars>>

\* await response.json() rejects: the body of the 2xx response is no JSON.
JsonRejects(i) ==
    /\ i \in 1..Len(inflight)
    /\ inflight[i].stage = "json"
    /\ CatchFinally(i, "ok, body unreadable")
    /\ UNCHANGED <<variant, isLoaded, center, selectedPlace, alerts, fetchCount, calls>>
    /\ UNCHANGED <<serverVars, fenceVars>>

\* await response.json() resolves: setListings(data.listings) or
\* setAnalysisResult(data); finally: setIsAnalyzing(false).
JsonResolves(i) ==
    /\ i \in 1..Len(inflight)
    /\ inflight[i].stage = "json"
    /\ IF variant = "rera"
       THEN /\ \E data \in ListingPayloads(inflight[i].body.address) : listings' = data
            /\ UNCHANGED analysisResult
       ELSE /\ \E data \in ResultPayloads(inflight[i].body.address) : analysisResult' = data
            /\ UNCHANGED listings
    /\ isAnalyzing' = FALSE
    /\ inflight' = Remove(inflight, i)
    /\ lastSettled' = "ok, stored"
    /\ UNCHANGED error
    /\ UNCHANGED <<variant, isLoaded, center, selectedPlace, alerts, fetchCount, calls>>
    /\ UNCHANGED <<serverVars, fenceVars>>

Settles ==
    \E i \in 1..MaxAnalyze :
        \/ FetchRejects(i)
        \/ \E status \in Statuses : FetchResolves(i, status)
        \/ JsonRejects(i)
        \/ JsonResolves(i)

\* The page as the user drives it.
ClientNext ==
    \/ ScriptLoaded
    \/ \E place \in Places : onPlaceChanged(place)
    \/ ClickSearch
    \/ Settles

\* The handlers called directly, whatever the button shows.
HandlerNext ==
    \/ ScriptLoaded
    \/ \E place \in Places : onPlaceChanged(place)
    \/ handleAnalyze
    \/ Settles

(* ----------------------- fence stripping alone ------------------------ *)

FenceInit ==
    /\ fBody \in JsonBodies
    /\ fpc = "start"
    /\ fWrapped = NoText
    /\ fBare = NoText
    /\ fTwice = NoText

SanitizeWrapped(w) ==
    /\ fpc = "start"
    /\ fWrapped' = cleaned_response_text(Wrap(w, fBody))
    /\ fpc' = "wrapped"
    /\ UNCHANGED <<fBody, fBare, fTwice>>
    /\ UNCHANGED <<serverVars, clientVars>>

SanitizeBare ==
    /\ fpc = "wrapped"
    /\ fBare' = cleaned_response_text(fBody)
    /\ fpc' = "bare"
    /\ UNCHANGED <<fBody, fWrapped, fTwice>>
    /\ UNCHANGED <<serverVars, clientVars>>

SanitizeTwice ==
    /\ fpc = "bare"
    /\ fTwice' = cleaned_response_text(fWrapped)
    /\ fpc' = "done"
    /\ UNCHANGED <<fBody, fWrapped, fBare>>
    /\ UNCHANGED <<serverVars, clientVars>>

FenceNext ==
    \/ \E w \in {"json", "plain"} : SanitizeWrapped(w)
    \/ SanitizeBare
    \/ SanitizeTwice

(* --------------------------- specifications --------------------------- *)

\* The parts that a specification leaves alone.
ServerIdle ==
    /\ environ = {} /\ pydantic = "v2" /\ pc = "down" /\ phases = <<>>
    /\ body = JNull /\ address = <<>> /\ prompt = NoPrompt /\ modelCalls = 0
    /\ raw = NoText /\ cleaned = NoText /\ response_data = NoData
    /\ exc = NoExc /\ errorLog = NoExc
    /\ response = NoResponse /\ rootResponse = NoResponse

ClientIdle ==
    /\ variant = "rera" /\ isLoaded = FALSE /\ center = DefaultCenter
    /\ selectedPlace = NoAddress /\ isAnalyzing = FALSE /\ listings = NoListings
    /\ analysisResult = NullResult /\ error = Null /\ alerts = 0
    /\ inflight = <<>> /\ fetchCount = 0 /\ calls = 0 /\ lastSettled = "none"

FenceIdle ==
    /\ fBody = NoText /\ fpc = "idle" /\ fWrapped = NoText /\ fBare = NoText
    /\ fTwice = NoText

\* The endpoint.
Init == ServerInit /\ ClientIdle /\ FenceIdle
Next == ServerNext
Spec == Init /\ [][Next]_vars

\* The page.
PageInit == ServerIdle /\ ClientInit /\ FenceIdle
ClientSpec == PageInit /\ [][ClientNext]_vars

\* The page's handlers.
HandlerSpec == PageInit /\ [][HandlerNext]_vars

\* Fence stripping.
StripInit == ServerIdle /\ ClientIdle /\ FenceInit
FenceSpec == StripInit /\ [][FenceNext]_vars

(* ------------------------------ claims -------------------------------- *)

\* The request body has no address field.
LacksAddress(b) == b.t # "obj" \/ ~HasKey(b.members, "address")

\* The request body passes input validation: it is an object whose address
\* is a string, or a number where Pydantic v1 turns numbers into strings.
PassesValidation(b, pv) ==
    /\ b.t = "obj"
    /\ HasKey(b.members, "address")
    /\ \/ Get(b.members, "address").t = "str"
       \/ Get(b.members, "address").t = "num" /\ pv = "v1"

\* The handler read a reply of the model, cleaned it and gave it to
\* json.loads, with the result Parsed.
Cleaned == "Parsing/Validating output" \in {phases[i] : i \in 1..Len(phases)}
Parsed == response_data

\* The value is {listings: L} where every item of L is an object that holds
\* the four fields, each a string.
StrictConforms(v) ==
    /\ v.t = "obj"
    /\ HasKey(v.members, "listings")
    /\ Get(v.members, "listings").t = "arr"
    /\ \A i \in 1..Len(Get(v.members, "listings").items) :
          LET item == Get(v.members, "listings").items[i]
          IN  /\ item.t = "obj"
              /\ \A f \in FieldNames :
                    /\ HasKey(item.members, f)
                    /\ Get(item.members, f).t = "str"

Items(v) == Get(v.members, "listings").items

\* The value holds a key that is no field of the schema.
HasExtras(v) ==
    \/ \E i \in 1..Len(v.members) : v.members[i].k # <<"listings">>
    \/ \E i \in 1..Len(Items(v)) :
          \E j \in 1..Len(Items(v)[i].members) :
              \A f \in FieldNames : Items(v)[i].members[j].k # <<f>>

Generic500 == [status |-> 500, detail |-> FixedDetail, listings |-> <<>>]

\* C1: when a step of the handler raises (no credential, the model call,
\* json.loads, the schema), the response is 500 with the one fixed detail,
\* whatever the exception says; the exception goes to the log only.
C1_GenericFailure ==
    (pc = "responded" /\ PassesValidation(body, pydantic)) =>
        /\ ("GEMINI_API_KEY" \notin environ) => exc # NoExc
        /\ (Cleaned /\ ~Parsed.ok) => exc # NoExc
        /\ (Cleaned /\ Parsed.ok /\ Parsed.val.t # "obj") => exc # NoExc
        /\ (modelCalls = 1 /\ ~Cleaned) => exc \in ModelExceptions
        /\ exc # NoExc => (response = Generic500 /\ errorLog = exc)
        /\ exc = NoExc => response.status = 200

C1_Witness ==
    /\ pc = "responded"
    /\ exc \in ModelExceptions
    /\ response = Generic500

\* C2: a request whose body lacks address never has the model invoked and
\* is answered with an error.
C2_NoAddressNoModel ==
    (phases # <<>> /\ LacksAddress(body)) =>
        /\ modelCalls = 0
        /\ prompt = NoPrompt
        /\ pc \notin {"awaiting", "sanitizing", "parsing"}
        /\ pc = "responded" => response.status >= 400

C2_Witness ==
    /\ pc = "responded"
    /\ LacksAddress(body)
    /\ response.status = 422

\* C3 as stated: every response has status 200 or 500.
C3_Only200Or500 ==
    pc = "responded" => response.status \in {200, 500}

\* C3 amended: every response has status 200, 422 or 500; it is 422 exactly
\* when the body fails input validation, and the handler did not run.
C3_Statuses ==
    pc = "responded" =>
        /\ response.status \in {200, 422, 500}
        /\ response.status = 422 <=> ~PassesValidation(body, pydantic)
        /\ response.status = 422 => (modelCalls = 0 /\ exc = NoExc)

C3_Witness ==
    /\ pc = "responded"
    /\ response.status = 422
    /\ ~LacksAddress(body)

\* C4 as stated: a reply that is valid JSON and in which a listing lacks a
\* field, listings is absent, or a field is wrongly typed is answered 500.
C4_AllOrNothing ==
    (pc = "responded" /\ Cleaned /\ Parsed.ok /\ ~StrictConforms(Parsed.val)) =>
        response.status = 500

\* C5 as stated: stripping the fences of a well-formed body gives text that
\* parses to the value of the body, stripping the bare body keeps its value,
\* and stripping twice gives the text of stripping once.
C5_LosslessIdempotent ==
    fpc = "done" =>
        /\ json_loads(fWrapped).ok
        /\ json_loads(fWrapped).val = json_loads(fBody).val
        /\ json_loads(fBare).ok
        /\ json_loads(fBare).val = json_loads(fBody).val
        /\ fTwice = fWrapped

\* C6: keys that are no fields of the schema, at the top or in a listing, do
\* not make validation fail and are not in the listings returned.
C6_ExtrasIgnored ==
    (pc = "responded" /\ Cleaned /\ Parsed.ok /\ StrictConforms(Parsed.val)
        /\ HasExtras(Parsed.val)) =>
        /\ response.status = 200
        /\ Len(response.listings) = Len(Items(Parsed.val))
        /\ \A i \in 1..Len(response.listings) :
              DOMAIN response.listings[i] = FieldNames

C6_Witness ==
    /\ pc = "responded"
    /\ Cleaned /\ Parsed.ok /\ StrictConforms(Parsed.val)
    /\ \E i \in 1..Len(Items(Parsed.val)) : HasKey(Items(Parsed.val)[i].members, "rating")
    /\ response.status = 200

\* C7: when the cleaned reply is a conforming {listings: L}, the response is
\* 200 with the listings of L: same length, same order, same field values.
C7_RelaysUnchanged ==
    (pc = "responded" /\ Cleaned /\ Parsed.ok /\ StrictConforms(Parsed.val)) =>
        /\ response.status = 200
        /\ Len(response.listings) = Len(Items(Parsed.val))
        /\ \A i \in 1..Len(Items(Parsed.val)) :
              \A f \in FieldNames :
                  response.listings[i][f] = Get(Items(Parsed.val)[i].members, f).s

C7_Witness ==
    /\ pc = "responded"
    /\ response.status = 200
    /\ raw # cleaned
    /\ Len(response.listings) = 2
    /\ response.listings[1] # response.listings[2]

ResultsEmpty == listings = NoListings /\ analysisResult = NullResult

\* C9: handleAnalyze invoked while selectedPlace is empty shows the warning,
\* sends no request, and leaves the busy flag, the results and the error
\* as they are.
C9_NoAddressNoRequest ==
    [][(calls' = calls + 1 /\ selectedPlace = NoAddress) =>
          /\ alerts' = alerts + 1
          /\ UNCHANGED <<inflight, fetchCount, isAnalyzing, listings,
                         analysisResult, error>>]_vars

C9_Witness ==
    /\ alerts > 0
    /\ selectedPlace = NoAddress
    /\ inflight # <<>>
    /\ error # Null

\* An analyze action with an address selected: busy, results and error
\* cleared, one request sent.
StartsOneRequest ==
    (calls' = calls + 1 /\ selectedPlace # NoAddress) =>
        /\ isAnalyzing'
        /\ error' = Null
        /\ ResultsEmpty'
        /\ fetchCount' = fetchCount + 1
        /\ inflight' = Append(inflight, [body |-> RequestBody, stage |-> "fetch"])

\* The request in flight settles in this step.
SettlesNow == Len(inflight') < Len(inflight)

\* The payload of a 2xx response to the request is stored, the error is null.
StoredPayload ==
    /\ inflight[1].stage = "json"
    /\ error' = Null
    /\ IF variant = "rera"
       THEN listings' \in ListingPayloads(inflight[1].body.address)
       ELSE analysisResult' \in ResultPayloads(inflight[1].body.address)

\* The fixed error string is stored, the results are empty.
StoredError == error' = FixedError(variant) /\ ResultsEmpty'

PhaseOrder ==
    <<"Received", "Validating input", "Awaiting model", "Sanitizing",
      "Parsing/Validating output">>
Terminal == {"Succeeded", "Failed"}

Reached(ph) == ph \in {phases[i] : i \in 1..Len(phases)}
Ended == phases # <<>> /\ phases[Len(phases)] \in Terminal

\* The phases before the end of the request.
Walked == IF Ended THEN SubSeq(phases, 1, Len(phases) - 1) ELSE phases

\* The phases are the first ones of PhaseOrder, in its order, each once, and
\* after them at most one of Succeeded and Failed.
InOrder ==
    /\ Len(Walked) <= Len(PhaseOrder)
    /\ Walked = SubSeq(PhaseOrder, 1, Len(Walked))

\* C11 as stated: every request that is answered ended in Succeeded or in
\* Failed.
C11_EndsSucceededOrFailed ==
    pc = "responded" => (InOrder /\ Ended)

\* C11 amended: the phases of a request come in the order Received,
\* Validating input, Awaiting model, Sanitizing, Parsing/Validating output;
\* a request whose body passes input validation ends in exactly one of
\* Succeeded (200 with the payload) and Failed (the generic 500), and one
\* whose body does not ends after Validating input with 422.  The model is
\* called at most once per request, sanitizing and parsing come after the
\* call returned, and a request that reached Failed holds no payload.
C11_Phases ==
    phases # <<>> =>
        /\ InOrder
        /\ modelCalls <= 1
        /\ modelCalls = 1 <=> Reached("Awaiting model")
        /\ (Reached("Sanitizing") \/ cleaned # NoText \/ response_data # NoData
               \/ pc \in {"sanitizing", "parsing"}) =>
              (modelCalls = 1 /\ raw # NoText)
        /\ Reached("Parsing/Validating output") => cleaned = cleaned_response_text(raw)
        /\ Ended <=> (pc = "responded" /\ PassesValidation(body, pydantic))
        /\ (pc = "responded" /\ ~PassesValidation(body, pydantic)) =>
              /\ phases = <<"Received", "Validating input">>
              /\ response.status = 422
        /\ Reached("Succeeded") =>
              (response.status = 200 /\ Len(Walked) = Len(PhaseOrder) /\ exc = NoExc)
        /\ Reached("Failed") =>
              (response = Generic500 /\ response.listings = <<>> /\ exc # NoExc)

C11_Witness ==
    /\ pc = "responded"
    /\ phases = PhaseOrder \o <<"Failed">>
    /\ ~response_data.ok
    /\ modelCalls = 1
    /\ response = Generic500

\* C12: on the page, whatever places are selected, clicks made and requests
\* settled, at most one request is outstanding, the busy flag is true
\* exactly when one is, the button is disabled whenever the busy flag is
\* true or no address is selected, and no click starts an analyze action
\* while a request is outstanding.
C12_SingleOutstanding ==
    /\ Len(inflight) <= 1
    /\ isAnalyzing <=> inflight # <<>>
    /\ fetchCount <= calls
    /\ (isAnalyzing \/ selectedPlace = NoAddress) => SearchDisabled
    /\ (inflight # <<>> \/ selectedPlace = NoAddress) => ~ENABLED ClickSearch

C12_Witness ==
    /\ Len(inflight) = 1
    /\ isAnalyzing
    /\ fetchCount = 2
    /\ selectedPlace # NoAddress
    /\ inflight[1].body.address # selectedPlace
    /\ SearchDisabled

\* The results stored are those of a request made for address a.
ResultsFor(a) ==
    /\ \A i \in 1..Len(listings) : listings[i].for = a
    /\ analysisResult # NullResult => analysisResult.for = a

\* C13 as stated: the results stored on the page are the response to a
\* request made for the selected address, and the settlement of a request
\* made for another address than the selected one stores neither its
\* results nor its error.
C13_NoStaleResult ==
    [][/\ ResultsFor(selectedPlace)'
       /\ (SettlesNow /\ inflight[1].body.address # selectedPlace) =>
             UNCHANGED <<listings, analysisResult, error>>]_vars

====
